---- MODULE Spec2Model ----
(***************************************************************************)
(* Setup automation orchestrator (src/automation_service.py) and the       *)
(* /progress polling endpoint (src/setup_server.py).                       *)
(*                                                                         *)
(* A line of the progress log is a sequence of tokens: the four record     *)
(* prefixes, whitespace, and opaque pieces of text.  str.strip,            *)
(* str.startswith and str.replace are modelled on tokens.                  *)
(***************************************************************************)
EXTENDS Integers, Sequences, FiniteSets, TLC

VARIABLES
  pc,          \* position of run_automation: "idle", a step name, or "done"
  result,      \* return value of the last run_automation: "none", TRUE or FALSE
  log,         \* setup_progress.log
  response,    \* <<body>> of the GET /progress answered since the last write, else <<>>
  config,      \* AutomationService.config (in memory)
  configFile,  \* user_config.json
  rgExists,    \* the configured Azure resource group exists
  venv,        \* the venv directory exists
  issued,      \* az commands issued by provisioning in the current run, in order
  steps,       \* steps entered by the current run, in order
  attempt,     \* polls made by verify_deployment
  verified,    \* deployment_verified of verify_deployment
  runs,        \* run_automation invocations so far
  truncated,   \* which kinds of record the log held when the current run reset it
  prev,        \* return value of the run before the current one ("none": there is none)
  cwd,         \* working directory of the orchestrator process, relative to the project
  environ,     \* os.environ['PATH'] of the orchestrator process
  host,        \* the machine: platform, registry Path, where gh and az are installed
  calls,       \* the tool lookups made so far and what each returned
  children,    \* the detached child processes started so far (subprocess.Popen)
  installer,   \* the machine ToolInstaller runs on, and what check_and_install returned
  _poc_agent,  \* the module-level POCAgent of poc_api: <<>> (None) or <<agent>>
  db,          \* POCConversation: for each user <<>> or <<the latest saved conversation>>
  reply        \* <<the last chat request with the result it got>>, <<>> before the first

\* the state of the programs that run beside the setup server and the
\* orchestrator
extra == <<installer, _poc_agent, db, reply>>

\* the state of the POC agent API
poc == <<_poc_agent, db, reply>>

vars == <<pc, result, log, response, config, configFile,
          rgExists, venv, issued, steps, attempt, verified, runs, truncated,
          prev, cwd, environ, host, calls, children, extra>>

\* the state of tool discovery
lookup == <<environ, host, calls>>

\* install_tools.py has not run
NoInstaller ==
  [is_windows |-> FALSE, winget_cmd |-> FALSE, brew |-> FALSE, on_path |-> {},
   installed |-> {}, exit_code |-> -1]

\* the users of the POC agent API (current_user.id)
Users == {"1", "2"}

\* no conversation was saved yet
NoConversations == [u \in Users |-> <<>>]

(* ------------------------------ bounds -------------------------------- *)

\* number of run_automation invocations explored
MaxRuns == 2
\* number of records a free-form writer appends in ParseSpec
MaxLog == 4
\* number of tool lookups explored in FindSpec
MaxCalls == 3
\* number of messages process_request handles without an error in AgentSpec
MaxRequests == 6
\* length of the agent's conversation memory explored in ChatSpec
MaxMessages == 5

(* ------------------------- text helpers ------------------------------- *)

NL == "\n"
Whitespace == {" ", NL}

RECURSIVE lstrip(_)
lstrip(s) == IF s # <<>> /\ Head(s) \in Whitespace THEN lstrip(Tail(s)) ELSE s

RECURSIVE rstrip(_)
rstrip(s) ==
  IF s # <<>> /\ s[Len(s)] \in Whitespace
    THEN rstrip(SubSeq(s, 1, Len(s) - 1))
    ELSE s

\* str.strip()
strip(s) == rstrip(lstrip(s))

\* str.startswith(prefix)
startswith(s, prefix) == s # <<>> /\ Head(s) = prefix

\* str.replace(prefix, ''): every occurrence is removed, not only the first
replace(s, prefix) == SelectSeq(s, LAMBDA tok : tok # prefix)

\* the elements of a sequence
Range(seq) == { seq[i] : i \in 1..Len(seq) }

(* ------------------------- progress log file -------------------------- *)

\* the file before anything wrote it: os.path.exists('setup_progress.log') is false
NoFile == [exists |-> FALSE, lines |-> <<>>]

\* mutant of AppendLine: the file is opened with 'w'
AppendLine_rewrite(f, message) == [exists |-> TRUE, lines |-> << message \o <<NL>> >>]

\* open(path, 'a') followed by f.write(f"{message}\n")
AppendLine(f, message) == [exists |-> TRUE, lines |-> Append(f.lines, message \o <<NL>>)]

_log_progress(f, message) == AppendLine(f, message)

\* formatted = f"[{timestamp}] {message}"
_log(f, message) == AppendLine(f, <<"[timestamp] ">> \o message)

PROGRESS(t) == <<"PROGRESS:">> \o t
DONE(t) == <<"DONE:">> \o t
ERROR(m) == <<"ERROR:">> \o m
COMPLETE(u) == <<"COMPLETE:">> \o u

\* one entry per logging call of a step: T is self._log, R is self._log_progress
T(m) == [ts |-> TRUE, msg |-> <<m>>]
R(m) == [ts |-> FALSE, msg |-> m]
\* self._log of an f-string with one interpolated piece
F(before, piece, after) == [ts |-> TRUE, msg |-> <<before, piece, after>>]

RECURSIVE Write(_, _)
Write(f, entries) ==
  IF entries = <<>> THEN f
  ELSE Write(IF Head(entries).ts THEN _log(f, Head(entries).msg)
                                 ELSE _log_progress(f, Head(entries).msg),
             Tail(entries))

(* ---------------------- GET /progress (setup_server) ------------------ *)

EmptyParse == [progress |-> <<>>, complete_url |-> <<>>, error_message |-> <<>>]

\* index of the first entry whose task equals task, 0 when there is none
RECURSIVE FirstMatchFrom(_, _, _)
FirstMatchFrom(progress, task, k) ==
  IF k > Len(progress) THEN 0
  ELSE IF progress[k].task = task THEN k
  ELSE FirstMatchFrom(progress, task, k + 1)

MarkDone(progress, task) ==
  LET k == FirstMatchFrom(progress, task, 1)
  IN IF k = 0 THEN progress
     ELSE [progress EXCEPT ![k].status = "done"]

\* body of "for line in lines"
ProcessLine(st, raw) ==
  LET line == strip(raw)
  IN IF startswith(line, "PROGRESS:")
       THEN [st EXCEPT !.progress =
               Append(@, [task |-> replace(line, "PROGRESS:"), status |-> "running"])]
     ELSE IF startswith(line, "DONE:")
       THEN [st EXCEPT !.progress = MarkDone(@, replace(line, "DONE:"))]
     ELSE IF startswith(line, "COMPLETE:")
       THEN [st EXCEPT !.complete_url = replace(line, "COMPLETE:")]
     ELSE IF startswith(line, "ERROR:")
       THEN [st EXCEPT !.error_message = replace(line, "ERROR:")]
     ELSE st

\* "for line in lines" over lines[lo..hi], starting from st.  The range is
\* split in halves and the state after the first half is bound as a value
\* before the second half starts, so that a long log does not nest deeply.
RECURSIVE ParseRange(_, _, _, _)
ParseRange(st, lines, lo, hi) ==
  IF lo > hi THEN st
  ELSE IF lo = hi THEN ProcessLine(st, lines[lo])
  ELSE LET mid == (lo + hi) \div 2
       IN CHOOSE after \in { ParseRange(left, lines, mid + 1, hi) :
                               left \in {ParseRange(st, lines, lo, mid)} } : TRUE

ParseLines(lines) == ParseRange(EmptyParse, lines, 1, Len(lines))

\* the JSON body written by the /progress branch of do_GET
ProgressResponse(f) ==
  IF ~f.exists
    THEN [progress |-> <<>>, complete |-> FALSE, url |-> <<>>, error |-> <<>>]
    ELSE LET st == ParseLines(f.lines)
         IN [progress |-> st.progress,
             complete |-> st.complete_url # <<>>,
             url |-> st.complete_url,
             error |-> st.error_message]

(* ------------------- AutomationService: program constants ------------- *)

\* for i in range(1, 37)
MaxAttempts == 36

StaticUrl == "https://<defaultHostname>"
BackendUrl == "https://<app_service_name>.azurewebsites.net"

\* mutant of Sequence: commit/push is called before the local bootstrap
Sequence_push_first ==
  << "install_cli_tools", "authenticate_github", "authenticate_azure",
     "setup_azure_subscription", "provision_azure_resources",
     "create_github_workflows", "set_azure_publish_profiles",
     "create_coming_soon_pages", "ensure_main_branch", "setup_git_remote",
     "commit_and_push", "create_virtual_environment", "install_dependencies",
     "initialize_database", "build_welcome_page", "secure_config_file",
     "set_api_key_secrets", "create_dev_environment",
     "verify_deployment", "cleanup" >>

\* run_automation calls the steps in this order
Sequence ==
  << "install_cli_tools", "authenticate_github", "authenticate_azure",
     "setup_azure_subscription", "provision_azure_resources",
     "create_github_workflows", "set_azure_publish_profiles",
     "create_coming_soon_pages", "ensure_main_branch", "setup_git_remote",
     "create_virtual_environment", "install_dependencies",
     "initialize_database", "build_welcome_page", "secure_config_file",
     "set_api_key_secrets", "commit_and_push", "create_dev_environment",
     "verify_deployment", "cleanup" >>

IndexOf(step) == CHOOSE i \in 1..Len(Sequence) : Sequence[i] = step

\* the statement that follows step in the try block of run_automation
NextStep(step) == Sequence[IndexOf(step) + 1]

\* what _find_gh_command / _find_az_command can return: a path (TRUE) or
\* None (FALSE); PATH and the filesystem are read anew by every call
_find_gh_command == BOOLEAN
_find_az_command == BOOLEAN

(* ------------------------------ _run_command ------------------------- *)

\* what can happen to the process subprocess.run starts: exit status 0, a
\* non-zero exit status, or the executable is not found
Outcomes == {"ok", "nonzero", "not found"}

\* _run_command(cmd, check): subprocess.run(cmd, check=check) raises
\* CalledProcessError only when check is true, so the "if not check: return
\* None" of that handler is never reached; FileNotFoundError is raised
\* whatever check is
_run_command(check, outcome) ==
  IF outcome = "ok" THEN [kind |-> "CompletedProcess", returncode |-> 0]
  ELSE IF outcome = "nonzero"
    THEN IF check THEN [kind |-> "CalledProcessError", returncode |-> 1]
                  ELSE [kind |-> "CompletedProcess", returncode |-> 1]
  ELSE IF check THEN [kind |-> "FileNotFoundError", returncode |-> 1]
                ELSE [kind |-> "None", returncode |-> 1]

(* ---------------------------- tool discovery -------------------------- *)

Tools == {"gh", "az"}

\* the values os.environ['PATH'] takes: the one the process inherited and the
\* machine Path read from the registry
PathValues == {"inherited", "registry"}

\* a machine: platform.system() == 'Windows', whether the registry Path can be
\* read, on which PATH value each tool is found, and whether it is installed
\* in one of the common locations
Hosts ==
  [is_windows : BOOLEAN, registry_readable : BOOLEAN,
   on_path : [PathValues -> SUBSET Tools], common : SUBSET Tools]

\* a machine that is not Windows and has both tools on the inherited PATH
PlainHost ==
  [is_windows |-> FALSE, registry_readable |-> FALSE,
   on_path |-> [p \in PathValues |-> IF p = "inherited" THEN Tools ELSE {}],
   common |-> {}]

\* shutil.which(tool) under the PATH value path
which(h, tool, path) ==
  IF tool \in h.on_path[path] THEN "<" \o path \o " PATH>/" \o tool ELSE "None"

\* for path in common_paths: if os.path.exists(path): return path
common_paths(h, tool) ==
  IF tool \in h.common THEN "<common path>/" \o tool ELSE "None"

\* mutant of _find_command: PATH is refreshed but not searched again
_find_command_no_retry(h, tool, path) ==
  IF which(h, tool, path) # "None"
    THEN [path |-> which(h, tool, path), PATH |-> path]
  ELSE IF h.is_windows /\ h.registry_readable
    THEN [path |-> common_paths(h, tool), PATH |-> "registry"]
  ELSE [path |-> common_paths(h, tool), PATH |-> path]

\* the body shared by _find_gh_command and _find_az_command: the resolved
\* path ("None" for None) and the value it leaves in os.environ['PATH']
_find_command(h, tool, path) ==
  IF which(h, tool, path) # "None"
    THEN [path |-> which(h, tool, path), PATH |-> path]
  ELSE IF h.is_windows /\ h.registry_readable
    THEN IF which(h, tool, "registry") # "None"
           THEN [path |-> which(h, tool, "registry"), PATH |-> "registry"]
           ELSE [path |-> common_paths(h, tool), PATH |-> "registry"]
  \* not Windows, or winreg raised before os.environ was assigned
  ELSE [path |-> common_paths(h, tool), PATH |-> path]

(* ------------------- how a step leaves run_automation ----------------- *)

\* the step returned normally and run_automation goes on with nxt
Continue(step, nxt, f, cmds) ==
  /\ pc = step
  /\ pc' = nxt
  /\ log' = f
  /\ issued' = issued \o cmds
  /\ steps' = Append(steps, step)
  /\ result' = result
  /\ response' = <<>>

\* mutant of Abort: the failure is swallowed and the sequence goes on
Abort_goes_on(step, f, cmds) ==
  /\ pc = step
  /\ pc' = NextStep(step)
  /\ result' = result
  /\ log' = f
  /\ issued' = issued \o cmds
  /\ steps' = Append(steps, step)
  /\ response' = <<>>

\* the step raised (except Exception: return False) or made run_automation
\* return False
Abort(step, f, cmds) ==
  /\ pc = step
  /\ pc' = "done"
  /\ result' = FALSE
  /\ log' = f
  /\ issued' = issued \o cmds
  /\ steps' = Append(steps, step)
  /\ response' = <<>>

\* a step that logs its PROGRESS and DONE records, cannot raise, and issues cmds
Plain(step, entries, cmds) ==
  /\ Continue(step, NextStep(step), Write(log, entries), cmds)
  /\ UNCHANGED <<config, configFile, rgExists, venv, attempt, verified,
                 runs, truncated, prev, cwd, lookup, children, extra>>

(* ---------------------------- run_automation -------------------------- *)

\* which kinds of record /progress found in a log (kept of the log that a run
\* truncates)
Kinds(f) ==
  LET r == ProgressResponse(f)
  IN [tasks |-> r.progress # <<>>, error |-> r.error # <<>>, complete |-> r.complete]

\* mutant of ResetLog: the log is opened with 'a' instead of 'w'
ResetLog_append(f) == AppendLine(f, <<"Starting automation...">>)

\* with open(self.progress_log, 'w') as f: f.write("Starting automation...\n")
ResetLog(f) == [exists |-> TRUE, lines |-> << <<"Starting automation...", NL>> >>]

\* AutomationService(config_path).run_automation(): __init__ loads the
\* configuration, run_automation resets the log and enters the first step
StartRun ==
  /\ pc \in {"idle", "done"}
  /\ runs < MaxRuns
  \* _load_config raises when there is no user_config.json
  /\ configFile.exists
  /\ runs' = runs + 1
  /\ config' = configFile
  /\ truncated' = Kinds(log)
  /\ prev' = result
  /\ log' = ResetLog(log)
  /\ pc' = Sequence[1]
  /\ result' = "none"
  /\ issued' = <<>>
  /\ steps' = <<>>
  /\ attempt' = 0
  /\ verified' = FALSE
  /\ response' = <<>>
  \* automation.sh starts a new interpreter in the project directory
  /\ cwd' = <<>>
  /\ UNCHANGED <<configFile, rgExists, venv, lookup, children, extra>>

\* mutant of install_cli_tools: a missing Azure CLI is reported but the step
\* returns True
install_cli_tools_az_optional ==
  LET head == << T("=================================================="),
                 T("  [VERIFY] Checking CLI Tools"),
                 T("=================================================="),
                 T("") >>
      ghOk == << T("[OK] GitHub CLI found"), R(<<"GitHub CLI verified">>) >>
      azOk == << T("[OK] Azure CLI found"), R(<<"Azure CLI verified">>), T("") >>
  IN /\ \E gh_cmd \in _find_gh_command, az_cmd \in _find_az_command :
        IF ~gh_cmd
          THEN Abort("install_cli_tools",
                     Write(log, head \o
                       << T("[ERROR] GitHub CLI (gh) not found"),
                          T("[ERROR] This should have been installed by welcome script"),
                          R(ERROR(<<"GitHub CLI not found">>)) >>), <<>>)
        ELSE IF ~az_cmd
          THEN Continue("install_cli_tools", NextStep("install_cli_tools"),
                     Write(log, head \o ghOk \o
                       << T("[ERROR] Azure CLI (az) not found"),
                          T("[ERROR] This should have been installed by welcome script"),
                          R(ERROR(<<"Azure CLI not found">>)) >>), <<>>)
        ELSE Continue("install_cli_tools", NextStep("install_cli_tools"),
                      Write(log, head \o ghOk \o azOk), <<>>)
     /\ UNCHANGED <<config, configFile, rgExists, venv, attempt, verified,
                    runs, truncated, prev, cwd, lookup, children, extra>>

install_cli_tools ==
  LET head == << T("=================================================="),
                 T("  [VERIFY] Checking CLI Tools"),
                 T("=================================================="),
                 T("") >>
      ghOk == << T("[OK] GitHub CLI found"), R(<<"GitHub CLI verified">>) >>
      azOk == << T("[OK] Azure CLI found"), R(<<"Azure CLI verified">>), T("") >>
  IN /\ \E gh_cmd \in _find_gh_command, az_cmd \in _find_az_command :
        IF ~gh_cmd
          THEN Abort("install_cli_tools",
                     Write(log, head \o
                       << T("[ERROR] GitHub CLI (gh) not found"),
                          T("[ERROR] This should have been installed by welcome script"),
                          R(ERROR(<<"GitHub CLI not found">>)) >>), <<>>)
        ELSE IF ~az_cmd
          THEN Abort("install_cli_tools",
                     Write(log, head \o ghOk \o
                       << T("[ERROR] Azure CLI (az) not found"),
                          T("[ERROR] This should have been installed by welcome script"),
                          R(ERROR(<<"Azure CLI not found">>)) >>), <<>>)
        ELSE Continue("install_cli_tools", NextStep("install_cli_tools"),
                      Write(log, head \o ghOk \o azOk), <<>>)
     /\ UNCHANGED <<config, configFile, rgExists, venv, attempt, verified,
                    runs, truncated, prev, cwd, lookup, children, extra>>

\* authenticate_github and authenticate_azure have the same shape
Authenticate(step, find_command, name) ==
  LET head == << F("-> Authenticating ", name, " CLI..."),
                 T("  (Browser will open for authentication)"), T("") >>
  IN /\ \E cmd \in find_command :
        IF ~cmd
          THEN Abort(step, Write(log, head \o << F("[ERROR] ", name, " CLI not found") >>),
                     <<>>)
          ELSE \E status \in {"ok", "fail"} :
                 IF status = "ok"
                   THEN Continue(step, NextStep(step),
                          Write(log, head \o
                            << F("[OK] ", name, " CLI already authenticated"), T("") >>),
                          <<>>)
                   ELSE \E login \in {"ok", "fail", "exception"} :
                          IF login = "ok"
                            THEN Continue(step, NextStep(step),
                                   Write(log, head \o
                                     << T("<streamed output>"), T(""),
                                        F("[OK] ", name, " CLI authenticated"), T("") >>),
                                   <<>>)
                          ELSE IF login = "fail"
                            THEN Abort(step,
                                   Write(log, head \o
                                     << T("<streamed output>"),
                                        F("[ERROR] ", name, " authentication failed") >>),
                                   <<>>)
                          ELSE Abort(step,
                                   Write(log, head \o
                                     << F("[ERROR] ", name, " authentication error: <e>") >>),
                                   <<>>)
     /\ UNCHANGED <<config, configFile, rgExists, venv, attempt, verified,
                    runs, truncated, prev, cwd, lookup, children, extra>>

authenticate_github ==
  Authenticate("authenticate_github", _find_gh_command, "GitHub")

authenticate_azure ==
  Authenticate("authenticate_azure", _find_az_command, "Azure")

\* best effort: nothing it does can raise, only print() is used
setup_azure_subscription ==
  /\ \E az_cmd \in _find_az_command :
       IF ~az_cmd \/ config.subscription_id = ""
         THEN Continue("setup_azure_subscription", NextStep("setup_azure_subscription"),
                       log, <<>>)
         ELSE \E outcome \in {"ok", "fail"} :
                Continue("setup_azure_subscription", NextStep("setup_azure_subscription"),
                         log, <<>>)
  /\ UNCHANGED <<config, configFile, rgExists, venv, attempt, verified,
                 runs, truncated, prev, cwd, lookup, children, extra>>

(* ---------------------- provision_azure_resources --------------------- *)

\* mutant of _save_config: the file is left as it was
_save_config_skipped(file, cfg) == file

\* _save_config(): open(config_path, 'w') and json.dump(self.config): what the
\* file held is gone, whoever wrote it
_save_config(file, cfg) == cfg

\* the commands run with check=True, each with the _log call before it and
\* the _log call after it returned
ProvisionCommands ==
  << [pre |-> <<T("-> Creating resource group '<resource_group>'...")>>,
      cmd |-> "az group create",
      post |-> <<T("[OK] Resource group created")>>],
     [pre |-> <<T("-> Creating App Service plan '<plan_name>'...")>>,
      cmd |-> "az appservice plan create",
      post |-> <<T("[OK] App Service plan created (Basic B1 - free tier eligible)")>>],
     [pre |-> <<T("-> Creating Prod Web App '<app_service_name>'...")>>,
      cmd |-> "az webapp create",
      post |-> <<T("[OK] Prod Web App created")>>],
     [pre |-> <<T("-> Creating Static Web App '<static_web_app_name>'...")>>,
      cmd |-> "az staticwebapp create",
      post |-> <<T("[OK] Static Web App created")>>],
     [pre |-> <<>>,
      cmd |-> "az staticwebapp show",
      post |-> <<>>],
     [pre |-> <<T("-> Configuring prod app environment variables...")>>,
      cmd |-> "az webapp config appsettings set",
      post |-> <<T("[OK] Prod app environment configured")>>] >>

\* log entries written while running cmds when command number failAt raises
\* CalledProcessError (failAt = 0: none fails)
RECURSIVE CheckedEntries(_, _)
CheckedEntries(cmds, failAt) ==
  IF cmds = <<>> THEN <<>>
  ELSE IF failAt = 1 THEN Head(cmds).pre
  ELSE Head(cmds).pre \o Head(cmds).post
         \o CheckedEntries(Tail(cmds), IF failAt = 0 THEN 0 ELSE failAt - 1)

\* the commands issued up to and including the failing one
RECURSIVE CheckedIssued(_, _)
CheckedIssued(cmds, failAt) ==
  IF cmds = <<>> THEN <<>>
  ELSE IF failAt = 1 THEN <<Head(cmds).cmd>>
  ELSE <<Head(cmds).cmd>>
         \o CheckedIssued(Tail(cmds), IF failAt = 0 THEN 0 ELSE failAt - 1)

\* what "az group exists" (check=False, capture_output=True) can print: the
\* answer, or nothing when the command itself fails
GroupExistsOutput == {IF rgExists THEN "true" ELSE "false", ""}

\* if result and result.stdout.strip().lower() == 'true'
GroupConflict(stdout) == stdout = "true"

provision_azure_resources ==
  LET step == "provision_azure_resources"
      head == << R(PROGRESS(<<"Provisioning Azure resources">>)),
                 T("-> Provisioning Azure resources...") >>
  IN /\ \E az_cmd \in _find_az_command :
        IF ~az_cmd
          THEN /\ Abort(step, Write(log, head \o
                          << T("[ERROR] Azure CLI not found"),
                             R(ERROR(<<"Azure CLI not found">>)) >>), <<>>)
               /\ UNCHANGED <<config, configFile, rgExists>>
          ELSE \E stdout \in GroupExistsOutput :
            IF GroupConflict(stdout)
              THEN /\ Abort(step, Write(log, head \o
                              << T("-> Checking if resource group exists..."),
                                 T("[ERROR] Resource group '<resource_group>' already exists"),
                                 T("[ERROR] Please delete existing resources or use different names"),
                                 R(ERROR(<<"Resource group already exists">>)) >>),
                            <<"az group exists">>)
                   /\ UNCHANGED <<config, configFile, rgExists>>
              ELSE \E failAt \in 0..Len(ProvisionCommands), hostname \in {"", "<defaultHostname>"} :
                LET entries == head \o << T("-> Checking if resource group exists...") >>
                                 \o CheckedEntries(ProvisionCommands, failAt)
                    cmds == <<"az group exists">> \o CheckedIssued(ProvisionCommands, failAt)
                IN IF failAt = 0
                     THEN /\ Continue(step, NextStep(step),
                               Write(log, entries \o
                                 << T("[OK] All Azure resources provisioned"),
                                    R(DONE(<<"Provisioning Azure resources">>)),
                                    T("") >>), cmds)
                          /\ config' = [config EXCEPT
                               !.backend_prod_url = BackendUrl,
                               !.static_web_app_url =
                                  IF hostname # "" THEN StaticUrl ELSE ""]
                          /\ configFile' = _save_config(configFile, config')
                          /\ rgExists' = TRUE
                     ELSE /\ Abort(step, Write(log, entries), cmds)
                          /\ rgExists' = (rgExists \/ failAt > 1)
                          /\ UNCHANGED <<config, configFile>>
     /\ UNCHANGED <<venv, attempt, verified, runs, truncated, prev, cwd, lookup, children, extra>>

(* ------------------------- the steps after it ------------------------- *)

create_github_workflows ==
  Plain("create_github_workflows",
        << R(PROGRESS(<<"Creating GitHub workflow">>)),
           T("-> Creating GitHub workflow..."),
           T("[OK] Created deploy-prod.yml"),
           T("[OK] GitHub workflow created"),
           R(DONE(<<"Creating GitHub workflows">>)),
           T("") >>,
        <<>>)

set_azure_publish_profiles ==
  Plain("set_azure_publish_profiles",
        << R(PROGRESS(<<"Setting Azure credentials">>)),
           T("-> Setting Azure credentials for GitHub Actions..."),
           T("[OK] Using Azure service principal authentication (AZURE_CREDENTIALS)"),
           R(DONE(<<"Setting Azure credentials">>)),
           T("") >>,
        <<>>)

create_coming_soon_pages ==
  Plain("create_coming_soon_pages",
        << R(PROGRESS(<<"Creating coming soon page">>)),
           T("-> Creating coming soon page..."),
           T("[OK] Created coming-soon-prod.html"),
           T("[OK] Coming soon page created"),
           R(DONE(<<"Creating coming soon page">>)),
           T("") >>,
        <<>>)

\* Step 1 of run_automation: both git commands run with check=True
ensure_main_branch ==
  LET step == "ensure_main_branch"
  IN /\ \E branch \in {"main", "other", "fail"} :
          IF branch = "fail"
            THEN Abort(step, log, <<>>)
          ELSE IF branch = "main"
            THEN Continue(step, NextStep(step), log, <<>>)
          ELSE \E checkout \in {"ok", "fail"} :
                 IF checkout = "ok"
                   THEN Continue(step, NextStep(step), log, <<>>)
                   ELSE Abort(step, log, <<>>)
     /\ UNCHANGED <<config, configFile, rgExists, venv, attempt, verified,
                    runs, truncated, prev, cwd, lookup, children, extra>>

\* a key that the JSON object of user_config.json does not have
Absent == "<no such key>"

\* what setup_git_remote raises for a configuration: the subscript
\* self.config['git_deployment']['github_repo_url'] raises KeyError when the
\* key is missing; an empty URL is passed on to git unchecked
setup_git_remote_raises(cfg) ==
  IF cfg.github_repo_url = Absent THEN "KeyError" ELSE "none"

\* check=False on both commands; only print() is used, also for the final
\* "[OK] Git remote configured: {github_url}"
setup_git_remote ==
  LET step == "setup_git_remote"
  IN /\ IF setup_git_remote_raises(config) # "none"
          THEN Abort(step, log, <<>>)
          ELSE \E add \in Outcomes, set_url \in Outcomes :
                 LET r == _run_command(FALSE, add)
                     \* if result and result.returncode != 0: set-url, check=False
                     second == IF r.kind # "None" /\ r.returncode # 0
                                 THEN _run_command(FALSE, set_url)
                                 ELSE r
                 IN /\ second.kind \in {"None", "CompletedProcess"}
                    /\ Continue(step, NextStep(step), log, <<>>)
     /\ UNCHANGED <<config, configFile, rgExists, venv, attempt, verified,
                    runs, truncated, prev, cwd, lookup, children, extra>>

\* the task name a step passes to _log_progress("PROGRESS:...") before it runs
\* a command that can raise
StepTask(step) ==
  CASE step = "provision_azure_resources" -> <<"Provisioning Azure resources">>
    [] step = "create_virtual_environment" -> <<"Creating virtual environment">>
    [] step = "install_dependencies" -> <<"Installing dependencies">>
    [] step = "initialize_database" -> <<"Initializing database">>
    [] step = "build_welcome_page" -> <<"Building welcome page">>
    [] OTHER -> <<>>

\* mutant of Checked: the DONE record is written in a finally clause
Checked_done_in_finally(step, task, cmds) ==
  \E failAt \in 0..Len(cmds) :
    IF failAt = 0
      THEN Continue(step, NextStep(step),
                    Write(log, << R(PROGRESS(<<task>>)), R(DONE(<<task>>)) >>), <<>>)
      ELSE Abort(step, Write(log, << R(PROGRESS(<<task>>)), R(DONE(<<task>>)) >>), <<>>)

\* a step of the shape PROGRESS, commands with check=True, DONE
Checked(step, task, cmds) ==
  \E failAt \in 0..Len(cmds) :
    IF failAt = 0
      THEN Continue(step, NextStep(step),
                    Write(log, << R(PROGRESS(<<task>>)), R(DONE(<<task>>)) >>), <<>>)
      ELSE Abort(step, Write(log, << R(PROGRESS(<<task>>)) >>), <<>>)

create_virtual_environment ==
  /\ Checked("create_virtual_environment", "Creating virtual environment",
             IF venv THEN <<>> ELSE <<"python -m venv venv">>)
  /\ venv' = (venv \/ pc' # "done")
  /\ UNCHANGED <<config, configFile, rgExists, attempt, verified,
                 runs, truncated, prev, cwd, lookup, children, extra>>

install_dependencies ==
  /\ Checked("install_dependencies", "Installing dependencies",
             <<"pip install --upgrade pip", "pip install -r requirements.txt">>)
  /\ UNCHANGED <<config, configFile, rgExists, venv, attempt, verified,
                 runs, truncated, prev, cwd, lookup, children, extra>>

initialize_database ==
  /\ Checked("initialize_database", "Initializing database", <<"python database.py">>)
  /\ UNCHANGED <<config, configFile, rgExists, venv, attempt, verified,
                 runs, truncated, prev, cwd, lookup, children, extra>>

\* os.chdir(path) on a directory given as the sequence of its components
chdir(dir, path) ==
  IF path = ".." THEN SubSeq(dir, 1, Len(dir) - 1) ELSE Append(dir, path)

\* os.chdir('frontend'); npm install; npm run build; os.chdir('..'): both
\* commands run with check=True and nothing catches what they raise
build_welcome_page ==
  LET step == "build_welcome_page"
      task == <<"Building welcome page">>
      inside == chdir(cwd, "frontend")
  IN /\ \E failAt \in 0..2 :
          IF failAt = 0
            THEN /\ Continue(step, NextStep(step),
                             Write(log, << R(PROGRESS(task)), R(DONE(task)) >>), <<>>)
                 /\ cwd' = chdir(inside, "..")
            ELSE /\ Abort(step, Write(log, << R(PROGRESS(task)) >>), <<>>)
                 /\ cwd' = inside
     /\ UNCHANGED <<config, configFile, rgExists, venv, attempt, verified,
                    runs, truncated, prev, lookup, children, extra>>

secure_config_file ==
  Plain("secure_config_file",
        << R(PROGRESS(<<"Securing configuration file">>)),
           R(DONE(<<"Securing configuration file">>)) >>,
        <<>>)

\* mutant of set_api_key_secrets: run_automation acts on the False it returns
set_api_key_secrets_fatal ==
  LET step == "set_api_key_secrets"
  IN /\ \E gh_cmd \in _find_gh_command :
        IF ~gh_cmd
          THEN Abort(step, Write(log, << R(PROGRESS(<<"Setting API key secrets">>)) >>), <<>>)
          ELSE Continue(step, NextStep(step),
                        Write(log, << R(PROGRESS(<<"Setting API key secrets">>)),
                                      R(DONE(<<"Setting API key secrets">>)) >>), <<>>)
     /\ UNCHANGED <<config, configFile, rgExists, venv, attempt, verified,
                    runs, truncated, prev, cwd, lookup, children, extra>>

\* best effort: returns False without DONE when gh is not found, and the exit
\* status of "gh secret set" is never looked at; run_automation ignores the
\* return value
set_api_key_secrets ==
  LET step == "set_api_key_secrets"
  IN /\ \E gh_cmd \in _find_gh_command :
        IF ~gh_cmd
          THEN Continue(step, NextStep(step),
                        Write(log, << R(PROGRESS(<<"Setting API key secrets">>)) >>), <<>>)
          ELSE \E outcome \in {"ok", "fail"} :
                 Continue(step, NextStep(step),
                          Write(log, << R(PROGRESS(<<"Setting API key secrets">>)),
                                        R(DONE(<<"Setting API key secrets">>)) >>),
                          <<>>)
     /\ UNCHANGED <<config, configFile, rgExists, venv, attempt, verified,
                    runs, truncated, prev, cwd, lookup, children, extra>>

commit_and_push ==
  Plain("commit_and_push",
        << R(PROGRESS(<<"Pushing to GitHub">>)), R(DONE(<<"Pushing to GitHub">>)) >>,
        <<>>)

create_dev_environment ==
  Plain("create_dev_environment",
        << R(PROGRESS(<<"Skipping dev environment">>)),
           T("-> Skipping dev environment (prod only)"),
           R(DONE(<<"Skipping dev environment">>)) >>,
        <<>>)

(* --------------------------- verify_deployment ------------------------ *)

\* mutant of range_1_37: the range is one iteration too long
range_1_38(att) == att + 1 \in 1..(MaxAttempts + 1)

\* for i in range(1, 37): the loop has an iteration left after att polls
range_1_37(att) == att + 1 \in 1..MaxAttempts

\* "break" on response.status == 200; any other status or an exception falls
\* through to time.sleep(5) and the next iteration
AfterPoll(status) == IF status = "200" THEN "cleanup" ELSE "verify_poll"

\* mutant of TimeoutRecords: the timeout reports the site as complete
TimeoutRecords_complete ==
  << R(DONE(<<"Verifying deployment">>)),
     R(COMPLETE(<<config.static_web_app_url>>)) >>

\* the records written when the loop ended with deployment_verified false
TimeoutRecords ==
  << R(DONE(<<"Verifying deployment">>)),
     R(ERROR(<<"Deployment not verified - check GitHub Actions">>)) >>

\* entry of verify_deployment up to the first poll
verify_deployment ==
  LET step == "verify_deployment"
      head == << R(PROGRESS(<<"Verifying deployment">>)),
                 R(DONE(<<"Deploying to Azure via GitHub Actions">>)) >>
  IN /\ IF config.static_web_app_url = ""
          THEN Continue(step, NextStep(step),
                        Write(log, head \o << R(DONE(<<"Verifying deployment">>)) >>), <<>>)
          ELSE Continue(step, "verify_poll", Write(log, head), <<>>)
     /\ attempt' = 0
     /\ verified' = FALSE
     /\ UNCHANGED <<config, configFile, rgExists, venv,
                    runs, truncated, prev, cwd, lookup, children, extra>>

\* one iteration of the polling loop: urllib.request.urlopen(req, timeout=10)
VerifyPoll ==
  /\ pc = "verify_poll"
  /\ range_1_37(attempt)
  /\ \E status \in {"200", "other", "error"} :
       /\ attempt' = attempt + 1
       /\ verified' = (verified \/ status = "200")
       /\ pc' = AfterPoll(status)
       /\ log' = IF status = "200"
                   THEN Write(log, << R(DONE(<<"Verifying deployment">>)),
                                      R(COMPLETE(<<config.static_web_app_url>>)) >>)
                   ELSE log
  /\ response' = <<>>
  /\ UNCHANGED <<result, issued, steps, config, configFile, rgExists, venv,
                 runs, truncated, prev, cwd, lookup, children, extra>>

\* mutant of VerifyTimeout: the timeout raises and run_automation returns False
VerifyTimeout_raises ==
  /\ pc = "verify_poll"
  /\ ~range_1_37(attempt)
  /\ pc' = IF verified THEN "cleanup" ELSE "done"
  /\ result' = IF verified THEN result ELSE FALSE
  /\ log' = IF verified THEN log ELSE Write(log, TimeoutRecords)
  /\ response' = <<>>
  /\ UNCHANGED <<issued, steps, attempt, verified, config, configFile,
                 rgExists, venv, runs, truncated, prev, cwd, lookup, children, extra>>

\* the loop ran out of iterations: if not deployment_verified
VerifyTimeout ==
  /\ pc = "verify_poll"
  /\ ~range_1_37(attempt)
  /\ pc' = "cleanup"
  /\ log' = IF verified THEN log ELSE Write(log, TimeoutRecords)
  /\ response' = <<>>
  /\ UNCHANGED <<result, issued, steps, attempt, verified, config, configFile,
                 rgExists, venv, runs, truncated, prev, cwd, lookup, children, extra>>

\* Step 13 and the success message: return True
cleanup ==
  /\ pc = "cleanup"
  /\ pc' = "done"
  /\ result' = TRUE
  /\ steps' = Append(steps, "cleanup")
  /\ response' = <<>>
  /\ UNCHANGED <<log, issued, attempt, verified, config, configFile,
                 rgExists, venv, runs, truncated, prev, cwd, lookup, children, extra>>

(* ------------------ set_azure_secrets (not called by the run) --------- *)

\* get_azure_publish_profile: every failure path returns None
get_azure_publish_profile(azFound, resourceGroup, outcome) ==
  IF ~azFound THEN "None"
  ELSE IF resourceGroup = "" THEN "None"
  ELSE IF outcome = "ok" THEN "<xml>"
  ELSE "None"

\* returns the log it leaves and whether it raised
set_azure_secrets(f, ghFound, publish_profile, popen) ==
  LET head == Write(f, << R(PROGRESS(<<"Setting Azure deployment secrets">>)) >>)
      done == Write(head, << R(DONE(<<"Setting Azure deployment secrets">>)) >>)
  IN IF ~ghFound THEN [log |-> head, raised |-> FALSE]
     ELSE [log |-> done, raised |-> FALSE]

(* ------------------------------ environment --------------------------- *)

\* GET /progress, served by the setup server while the orchestrator runs
Poll ==
  /\ response' = <<ProgressResponse(log)>>
  /\ UNCHANGED <<pc, result, log, config, configFile, rgExists, venv,
                 issued, steps, attempt, verified, runs, truncated, prev, cwd, lookup, children, extra>>

(* ------------------------------ specification ------------------------- *)

\* user_config.json as /complete-setup leaves it (the nesting of the JSON
\* object is flattened): the five required fields are set,
\* static_web_app_url is "" and backend_prod_url is not set yet
CompleteConfig ==
  [exists |-> TRUE, setup_complete |-> TRUE, git_initialized |-> TRUE,
   user_name |-> "<user_name>", project_name |-> "<project_name>",
   openai_api_key |-> "<openai_api_key>",
   github_repo_url |-> "<github_repo_url>",
   subscription_id |-> "<subscription_id>",
   static_web_app_url |-> "", backend_prod_url |-> ""]

\* the configurations run_automation is started with: the one /complete-setup
\* wrote, and unfinished ones (setup_complete false) whose repository URL is
\* empty, as /save-progress writes it, or missing from the file
InitialConfigs ==
  {CompleteConfig}
    \cup { [CompleteConfig EXCEPT !.setup_complete = FALSE,
                                  !.git_initialized = FALSE,
                                  !.github_repo_url = url] : url \in {"", Absent} }

Init ==
  /\ pc = "idle"
  /\ result = "none"
  /\ log = NoFile
  /\ response = <<>>
  /\ configFile \in InitialConfigs
  /\ config = configFile
  /\ rgExists \in BOOLEAN
  /\ venv = FALSE
  /\ issued = <<>>
  /\ steps = <<>>
  /\ attempt = 0
  /\ verified = FALSE
  /\ runs = 0
  /\ truncated = Kinds(NoFile)
  /\ prev = "none"
  /\ cwd = <<>>
  /\ environ = "inherited"
  /\ host = PlainHost
  /\ calls = <<>>
  /\ children = {}
  /\ _poc_agent = <<>>
  /\ db = NoConversations
  /\ reply = <<>>
  /\ installer = NoInstaller

Next ==
  \/ StartRun
  \/ install_cli_tools
  \/ authenticate_github
  \/ authenticate_azure
  \/ setup_azure_subscription
  \/ provision_azure_resources
  \/ create_github_workflows
  \/ set_azure_publish_profiles
  \/ create_coming_soon_pages
  \/ ensure_main_branch
  \/ setup_git_remote
  \/ create_virtual_environment
  \/ install_dependencies
  \/ initialize_database
  \/ build_welcome_page
  \/ secure_config_file
  \/ set_api_key_secrets
  \/ commit_and_push
  \/ create_dev_environment
  \/ verify_deployment
  \/ VerifyPoll
  \/ VerifyTimeout
  \/ cleanup
  \/ Poll

Spec == Init /\ [][Next]_vars

(* ------------- the /progress parser on arbitrary progress logs -------- *)

\* task names written after PROGRESS: and DONE:, one of them containing a
\* record prefix
TaskNames == { <<"a">>, <<"b">>, <<"a", "DONE:">> }

Records ==
  { PROGRESS(t) : t \in TaskNames } \cup { DONE(t) : t \in TaskNames }
    \cup { ERROR(<<"failed">>), COMPLETE(<<"https://site">>) }

\* some writer appends one record with _log_progress
AppendRecord ==
  /\ Len(log.lines) < MaxLog
  /\ \E rec \in Records : log' = _log_progress(log, rec)
  /\ response' = <<>>
  /\ UNCHANGED <<pc, result, config, configFile, rgExists,
                 venv, issued, steps, attempt, verified, runs, truncated, prev, cwd, lookup, children, extra>>

ParseInit ==
  /\ Init
  /\ rgExists = FALSE
  /\ configFile = CompleteConfig

ParseNext == AppendRecord \/ Poll

ParseSpec == ParseInit /\ [][ParseNext]_vars

(* ------------- a poll while a record is being appended ---------------- *)

\* the last line of the file has not received its "\n" yet
IsPartial(f) ==
  /\ f.lines # <<>>
  /\ f.lines[Len(f.lines)][Len(f.lines[Len(f.lines)])] # NL

\* f.write(f"{message}\n") has put only a proper prefix of the line in the file
BeginAppend ==
  /\ Len(log.lines) < MaxLog
  /\ ~IsPartial(log)
  /\ \E rec \in Records, k \in 1..3 :
       /\ k <= Len(rec)
       /\ log' = [exists |-> TRUE, lines |-> Append(log.lines, SubSeq(rec, 1, k))]
  /\ response' = <<>>
  /\ UNCHANGED <<pc, result, config, configFile, rgExists,
                 venv, issued, steps, attempt, verified, runs, truncated, prev, cwd, lookup, children, extra>>

\* the rest of the line arrives
FinishAppend ==
  /\ IsPartial(log)
  /\ \E rec \in Records :
       LET n == Len(log.lines)
           part == log.lines[n]
       IN /\ Len(part) <= Len(rec)
          /\ part = SubSeq(rec, 1, Len(part))
          /\ log' = [log EXCEPT !.lines[n] = rec \o <<NL>>]
  /\ response' = <<>>
  /\ UNCHANGED <<pc, result, config, configFile, rgExists,
                 venv, issued, steps, attempt, verified, runs, truncated, prev, cwd, lookup, children, extra>>

PartialNext == BeginAppend \/ FinishAppend \/ Poll

PartialSpec == ParseInit /\ [][PartialNext]_vars

(* ------------- repeated tool lookups on an unchanging machine --------- *)

\* one call of _find_gh_command or _find_az_command
Find(tool) ==
  /\ Len(calls) < MaxCalls
  /\ calls' = Append(calls, [tool |-> tool, path |-> _find_command(host, tool, environ).path])
  /\ environ' = _find_command(host, tool, environ).PATH
  /\ UNCHANGED <<pc, result, log, response, config, configFile, rgExists, venv,
                 issued, steps, attempt, verified, runs, truncated, prev, cwd, host, children, extra>>

FindGh == Find("gh")

FindAz == Find("az")

\* any machine, a process that has not looked anything up yet
FindInit ==
  /\ pc = "idle"
  /\ result = "none"
  /\ log = NoFile
  /\ response = <<>>
  /\ configFile = CompleteConfig
  /\ config = configFile
  /\ rgExists = FALSE
  /\ venv = FALSE
  /\ issued = <<>>
  /\ steps = <<>>
  /\ attempt = 0
  /\ verified = FALSE
  /\ runs = 0
  /\ truncated = Kinds(NoFile)
  /\ prev = "none"
  /\ cwd = <<>>
  /\ environ = "inherited"
  /\ host \in Hosts
  /\ calls = <<>>
  /\ children = {}
  /\ _poc_agent = <<>>
  /\ db = NoConversations
  /\ reply = <<>>
  /\ installer = NoInstaller

FindNext == FindGh \/ FindAz

FindSpec == FindInit /\ [][FindNext]_vars

(* ------------- the setup server's writes to user_config.json ---------- *)

Required ==
  {"user_name", "project_name", "openai_api_key", "github_repo_url", "subscription_id"}

\* what a field of the posted JSON object can hold: nothing (no such key), the
\* empty string, blanks, or text
FieldValues == {Absent, "", " ", "x"}

\* the posted objects explored: every required field filled in, or all but one
Payloads ==
  LET full == [f \in Required |-> "x"]
  IN {full} \cup { [full EXCEPT ![f] = v] : f \in Required, v \in FieldValues }

\* the forms saved before they are complete: nothing filled in, blanks only,
\* or everything filled in
Drafts == { [f \in Required |-> v] : v \in {Absent, " ", "x"} }

\* data.get(f, "")
get(data, f) == IF data[f] = Absent THEN "" ELSE data[f]

\* mutant of IsMissing: the value is not stripped before it is tested
IsMissing_unstripped(data, f) == data[f] \in {Absent, ""}

\* not data.get(f) or not str(data.get(f)).strip()
IsMissing(data, f) ==
  LET v == data[f]
      stripped == IF v = " " THEN "" ELSE v
  IN v \in {Absent, ""} \/ stripped = ""

\* there is no user_config.json yet
NoConfig ==
  [exists |-> FALSE, setup_complete |-> FALSE, git_initialized |-> FALSE,
   user_name |-> "", project_name |-> "", openai_api_key |-> "",
   github_repo_url |-> "", subscription_id |-> "",
   static_web_app_url |-> "", backend_prod_url |-> ""]

\* the configuration object built from the posted data
ConfigDict(data, complete) ==
  [exists |-> TRUE, setup_complete |-> complete, git_initialized |-> complete,
   user_name |-> get(data, "user_name"),
   project_name |-> get(data, "project_name"),
   openai_api_key |-> get(data, "openai_api_key"),
   github_repo_url |-> get(data, "github_repo_url"),
   subscription_id |-> get(data, "subscription_id"),
   static_web_app_url |-> "", backend_prod_url |-> ""]

ServerFrame ==
  UNCHANGED <<pc, result, log, response, config, rgExists, venv,
              issued, steps, attempt, verified, runs, truncated, prev, cwd, lookup, extra>>

\* POST /save-progress: the partial configuration replaces the file
SaveProgress ==
  /\ \E data \in Drafts : configFile' = ConfigDict(data, FALSE)
  /\ UNCHANGED children
  /\ ServerFrame

\* POST /init-git: 400 without a URL, 500 when "git remote add" fails,
\* otherwise git_initialized is set in the file if there is one
InitGit ==
  /\ \E github_repo_url \in FieldValues, add \in {"ok", "fail"} :
       configFile' =
         IF github_repo_url \in {Absent, ""} \/ add = "fail" \/ ~configFile.exists
           THEN configFile
           ELSE [configFile EXCEPT !.git_initialized = TRUE]
  /\ UNCHANGED children
  /\ ServerFrame

\* the /complete-setup branch of do_POST on the posted object: the status
\* it answers, what it leaves in user_config.json, and whether it started
\* automation.sh.  bash: the shell can be started (on Windows: Git Bash or a
\* bash on PATH was found)
complete_setup(file, data, bash) ==
  IF \E f \in Required : IsMissing(data, f)
    THEN [status |-> 400, file |-> file, started |-> FALSE]
  ELSE IF bash
    THEN [status |-> 200, file |-> ConfigDict(data, TRUE), started |-> TRUE]
  \* the configuration was written before the shell was looked for
  ELSE [status |-> 500, file |-> ConfigDict(data, TRUE), started |-> FALSE]

\* subprocess.Popen([bash, 'automation.sh'])
Popen(started) == IF started THEN {"bash automation.sh"} ELSE {}

\* mutant of CompleteSetup: the required-field validation is skipped
CompleteSetup_unvalidated ==
  /\ \E data \in Payloads, bash \in BOOLEAN :
       /\ configFile' = ConfigDict(data, TRUE)
       /\ children' = children \cup Popen(bash)
  /\ ServerFrame

\* POST /complete-setup: 400 when a required field is missing; otherwise the
\* complete configuration replaces the file and then automation.sh is started
CompleteSetup ==
  /\ \E data \in Payloads, bash \in BOOLEAN :
       /\ configFile' = complete_setup(configFile, data, bash).file
       /\ children' = children \cup Popen(complete_setup(configFile, data, bash).started)
  /\ ServerFrame

\* the server has never written user_config.json and no run has started
ConfigInit ==
  /\ pc = "idle"
  /\ result = "none"
  /\ log = NoFile
  /\ response = <<>>
  /\ configFile = NoConfig
  /\ config = NoConfig
  /\ rgExists = FALSE
  /\ venv = FALSE
  /\ issued = <<>>
  /\ steps = <<>>
  /\ attempt = 0
  /\ verified = FALSE
  /\ runs = 0
  /\ truncated = Kinds(NoFile)
  /\ prev = "none"
  /\ cwd = <<>>
  /\ environ = "inherited"
  /\ host = PlainHost
  /\ calls = <<>>
  /\ children = {}
  /\ _poc_agent = <<>>
  /\ db = NoConversations
  /\ reply = <<>>
  /\ installer = NoInstaller

\* the three writers of the server, and the orchestrator up to its write-back
ConfigNext ==
  \/ SaveProgress
  \/ InitGit
  \/ CompleteSetup
  \/ StartRun
  \/ install_cli_tools
  \/ authenticate_github
  \/ authenticate_azure
  \/ setup_azure_subscription
  \/ provision_azure_resources

ConfigSpec == ConfigInit /\ [][ConfigNext]_vars

(* ------------- ToolInstaller.check_and_install (install_tools.py) ----- *)

\* self.required_tools, in the order the dictionary is iterated
required_tools == <<"git", "gh">>

RequiredNames == [git |-> "Git", gh |-> "GitHub CLI"]

\* what the installer process (winget or brew) can do: exit 0, exit non-zero,
\* or fail to start (subprocess.run raises)
InstallOutcomes == {"ok", "nonzero", "exception"}

\* the machines: platform, whether welcome.bat passed a winget path, whether
\* brew is on PATH, and which required tools shutil.which finds
Machines ==
  [is_windows : BOOLEAN, winget_cmd : BOOLEAN, brew : BOOLEAN,
   on_path : SUBSET Range(required_tools)]

\* missing_tools, in order
missing_tools(m) == SelectSeq(required_tools, LAMBDA cmd : cmd \notin m.on_path)

\* install_windows_tool: False without a winget path, else by the exit status
install_windows_tool(m, outcome) == m.winget_cmd /\ outcome = "ok"

\* install_mac_tool: by the exit status of "brew install"
install_mac_tool(outcome) == outcome = "ok"

\* the missing tools whose installation returned True
Installed(m, outcomes) ==
  IF m.is_windows
    THEN { cmd \in Range(missing_tools(m)) : install_windows_tool(m, outcomes[cmd]) }
  ELSE IF m.brew
    THEN { cmd \in Range(missing_tools(m)) : install_mac_tool(outcomes[cmd]) }
  ELSE {}

\* the value check_and_install returns: tools_installed is set by any
\* installation that succeeds and nothing resets it
check_and_install(m, outcomes) ==
  LET tools_installed == Installed(m, outcomes) # {}
  IN IF missing_tools(m) = <<>> THEN 0
     ELSE IF m.is_windows
       THEN IF tools_installed THEN 1 ELSE 2
     ELSE IF m.brew
       THEN IF tools_installed THEN 1 ELSE 2
     ELSE 2

\* the self.log calls of the check loop
RECURSIVE CheckEntries(_, _)
CheckEntries(m, cmds) ==
  IF cmds = <<>> THEN <<>>
  ELSE << IF Head(cmds) \in m.on_path
            THEN F("[OK] ", RequiredNames[Head(cmds)], " found")
            ELSE F("[WARN] ", RequiredNames[Head(cmds)], " not found in PATH") >>
         \o CheckEntries(m, Tail(cmds))

\* the self.log calls of one installation
InstallEntries(m, cmd, outcome) ==
  LET via == IF m.is_windows THEN " via winget..." ELSE " via brew..."
  IN << F("-> Installing ", RequiredNames[cmd], via) >> \o
     ( IF m.is_windows /\ ~m.winget_cmd
         THEN << T("[ERROR] winget path not provided"),
                 T("Please run welcome.bat instead of this script directly") >>
       ELSE IF outcome = "ok"
         THEN << F("[OK] ", RequiredNames[cmd], " installed successfully") >>
       ELSE IF outcome = "nonzero"
         THEN << F("[WARN] ", RequiredNames[cmd], " installation returned code <returncode>") >>
       ELSE << F("[ERROR] Failed to install ", RequiredNames[cmd], ": <e>") >> )

RECURSIVE InstallLoopEntries(_, _, _)
InstallLoopEntries(m, cmds, outcomes) ==
  IF cmds = <<>> THEN <<>>
  ELSE InstallEntries(m, Head(cmds), outcomes[Head(cmds)])
         \o InstallLoopEntries(m, Tail(cmds), outcomes)

RECURSIVE ManualEntries(_)
ManualEntries(cmds) ==
  IF cmds = <<>> THEN <<>>
  ELSE << IF Head(cmds) = "gh"
            THEN F("  - ", RequiredNames[Head(cmds)],
                   ": brew install gh (Mac) or see https://cli.github.com/")
            ELSE F("  - ", RequiredNames[Head(cmds)],
                   ": brew install git (Mac) or apt/dnf install git (Linux)") >>
         \o ManualEntries(Tail(cmds))

\* everything check_and_install appends to setup_progress.log
InstallerEntries(m, outcomes) ==
  LET missing == missing_tools(m)
      head == << T("================================================="),
                 T("  [CHECK] Verifying Required Tools"),
                 T("================================================="),
                 T("") >> \o CheckEntries(m, required_tools)
      verdict == IF Installed(m, outcomes) # {}
                   THEN << T(""), T("[OK] Tool installation complete"),
                           T("-> Shell restart required to update PATH") >>
                   ELSE << T(""), T("[ERROR] Some tools failed to install"),
                           T("Please install manually and re-run setup") >>
  IN IF missing = <<>>
       THEN head \o << T(""), T("[OK] All required tools are installed") >>
     ELSE IF m.is_windows
       THEN head \o << T(""), T("-> Installing <n> missing tool(s)..."),
                       T("   (You may see UAC prompts - please approve them)"), T("") >>
                 \o InstallLoopEntries(m, missing, outcomes) \o verdict
     ELSE IF m.brew
       THEN head \o << T(""), T("-> Installing <n> missing tool(s)..."), T("") >>
                 \o InstallLoopEntries(m, missing, outcomes) \o verdict
     ELSE head \o << T(""), T("-> Installing <n> missing tool(s)..."), T(""),
                     T("[ERROR] Homebrew not found - cannot auto-install"),
                     T("Please install manually:") >>
               \o ManualEntries(missing)
               \o << T(""), T("After installation, run this script again.") >>

InstallerFrame ==
  UNCHANGED <<pc, result, config, configFile, rgExists, venv, issued, steps,
              attempt, verified, runs, truncated, prev, cwd, lookup, children, poc>>

\* python install_tools.py [winget_path]: ToolInstaller(...).check_and_install()
CheckAndInstall ==
  /\ installer.exit_code = -1
  /\ \E outcomes \in [Range(required_tools) -> InstallOutcomes] :
       /\ installer' = [installer EXCEPT
                          !.installed = Installed(installer, outcomes),
                          !.exit_code = check_and_install(installer, outcomes)]
       /\ log' = Write(log, InstallerEntries(installer, outcomes))
  /\ response' = <<>>
  /\ InstallerFrame

\* the shell is restarted and the script is run again: the tools that were
\* installed are now on PATH
RestartShell ==
  /\ installer.exit_code = 1
  /\ installer' = [installer EXCEPT !.on_path = @ \cup installer.installed,
                                    !.installed = {}, !.exit_code = -1]
  /\ response' = <<>>
  /\ UNCHANGED log
  /\ InstallerFrame

\* any machine, before install_tools.py ran
InstallInit ==
  /\ pc = "idle"
  /\ result = "none"
  /\ log = NoFile
  /\ response = <<>>
  /\ configFile = NoConfig
  /\ config = NoConfig
  /\ rgExists = FALSE
  /\ venv = FALSE
  /\ issued = <<>>
  /\ steps = <<>>
  /\ attempt = 0
  /\ verified = FALSE
  /\ runs = 0
  /\ truncated = Kinds(NoFile)
  /\ prev = "none"
  /\ cwd = <<>>
  /\ environ = "inherited"
  /\ host = PlainHost
  /\ calls = <<>>
  /\ children = {}
  /\ _poc_agent = <<>>
  /\ db = NoConversations
  /\ reply = <<>>
  /\ \E m \in Machines :
       installer = [is_windows |-> m.is_windows, winget_cmd |-> m.winget_cmd,
                    brew |-> m.brew, on_path |-> m.on_path,
                    installed |-> {}, exit_code |-> -1]

InstallNext == CheckAndInstall \/ RestartShell

InstallSpec == InstallInit /\ [][InstallNext]_vars

(* ------------- the POC agent (agents/poc_agent.py, poc_api.py) -------- *)

\* the conversation stages, in the order _update_conversation_stage moves
\* through them
Stages ==
  << "greeting", "initial_requirements", "frontend_requirements",
     "backend_requirements", "requirements_review", "ready_to_generate" >>

StageIndex(stage) == CHOOSE i \in 1..Len(Stages) : Stages[i] = stage

\* the user messages explored, each with what _update_conversation_stage
\* tests on it: len(user_input) > 15, an approval keyword, a frontend
\* keyword, a next trigger
Prompts ==
  { [text |-> "hello",
     long |-> FALSE, approval |-> FALSE, frontend |-> FALSE, next |-> FALSE],
    [text |-> "yes",
     long |-> FALSE, approval |-> TRUE, frontend |-> FALSE, next |-> FALSE],
    [text |-> "what's next for the design",
     long |-> TRUE, approval |-> FALSE, frontend |-> TRUE, next |-> TRUE] }

HumanMessage(content) == [type |-> "human", content |-> content]
AIMessage(content) == [type |-> "ai", content |-> content]

\* POCAgent(): the agent state set by __init__
POCAgent ==
  [conversation_stage |-> "greeting", requirements |-> {}, message_count |-> 0,
   messages |-> <<>>, conversation_chain |-> FALSE, conversation_id |-> "None"]

\* get_poc_agent(): the module-level agent, created by the first call
get_poc_agent(g) == IF g = <<>> THEN <<POCAgent>> ELSE g

\* d[key] = value on a dictionary held as a set of <<key, value>> pairs
SetItem(d, key, value) == { kv \in d : kv[1] # key } \cup { <<key, value>> }

\* the system context is injected as an ai message when the memory is empty
_setup_conversation_chain(a) ==
  [a EXCEPT !.conversation_chain = TRUE,
            !.messages = IF @ = <<>>
                           THEN << AIMessage("[SYSTEM CONTEXT: ...] Hello!") >>
                           ELSE @]

_get_stage_guidance(stage) ==
  CASE stage = "greeting" -> "[STAGE: greeting]"
    [] stage = "initial_requirements" -> "[STAGE: initial]"
    [] stage = "frontend_requirements" -> "[STAGE: frontend]"
    [] stage = "backend_requirements" -> "[STAGE: backend]"
    [] stage = "ready_to_generate" -> "[STAGE: ready]"
    [] OTHER -> ""

\* mutant of _restore_state: only the user's messages are put back
_restore_state_human_only(a, conversation_history) ==
  [a EXCEPT !.conversation_stage = conversation_history.stage,
            !.requirements = conversation_history.requirements,
            !.message_count = conversation_history.message_count,
            !.messages = @ \o SelectSeq(conversation_history.memory.messages,
                                        LAMBDA msg : msg.type = "human")]

\* stage, requirements and message_count are replaced; the stored human and
\* ai messages are appended to whatever the memory holds
_restore_state(a, conversation_history) ==
  [a EXCEPT !.conversation_stage = conversation_history.stage,
            !.requirements = conversation_history.requirements,
            !.message_count = conversation_history.message_count,
            !.messages = @ \o SelectSeq(conversation_history.memory.messages,
                                        LAMBDA msg : msg.type \in {"human", "ai"})]

\* mutant of _update_conversation_stage: the stage tests are a chain of "if"
\* instead of "elif", so one message can fall through several stages
_update_conversation_stage_if_chain(a, prompt) ==
  LET s1 == IF a.conversation_stage = "greeting" /\ prompt.long
              THEN "initial_requirements" ELSE a.conversation_stage
      s2 == IF s1 = "initial_requirements"
                 /\ (a.message_count + 1 >= 2 \/ prompt.approval)
              THEN "frontend_requirements" ELSE s1
      s3 == IF s2 = "frontend_requirements" /\ (prompt.frontend \/ prompt.approval)
              THEN "backend_requirements" ELSE s2
      s4 == IF s3 = "backend_requirements" /\ (prompt.approval \/ prompt.next)
              THEN "requirements_review" ELSE s3
      s5 == IF s4 = "requirements_review" /\ prompt.approval
              THEN "ready_to_generate" ELSE s4
  IN [a EXCEPT !.message_count = @ + 1, !.conversation_stage = s5]

\* message_count += 1, then the if/elif chain on the current stage
_update_conversation_stage(a, prompt) ==
  LET count == a.message_count + 1
      stage == a.conversation_stage
      next_stage ==
        IF stage = "greeting" /\ prompt.long THEN "initial_requirements"
        ELSE IF stage = "initial_requirements"
          THEN IF count >= 2 \/ prompt.approval THEN "frontend_requirements" ELSE stage
        ELSE IF stage = "frontend_requirements"
          THEN IF prompt.frontend \/ prompt.approval THEN "backend_requirements" ELSE stage
        ELSE IF stage = "backend_requirements"
          THEN IF prompt.approval \/ prompt.next THEN "requirements_review" ELSE stage
        ELSE IF stage = "requirements_review"
          THEN IF prompt.approval THEN "ready_to_generate" ELSE stage
        ELSE stage
  IN [a EXCEPT !.message_count = count, !.conversation_stage = next_stage]

_determine_next_action(stage) ==
  IF stage = "requirements_review" THEN "present_requirements"
  ELSE IF stage = "ready_to_generate" THEN "ready_to_generate"
  ELSE "continue_chat"

\* what the extraction chain can make of the conversation: nothing (also when
\* it fails), or a goal taken from the user's latest message
Picks == {"nothing", "last"}

gather_requirements(a, pick) ==
  LET humans == SelectSeq(a.messages, LAMBDA msg : msg.type = "human")
  IN IF pick = "nothing" \/ humans = <<>> THEN {}
     ELSE { <<"goal", humans[Len(humans)].content>> }

\* the non-null extracted values are merged into self.requirements
update_requirements_from_conversation(a, pick) ==
  IF a.messages = <<>> THEN a
  ELSE LET extracted == gather_requirements(a, pick)
           keys == { kv[1] : kv \in extracted }
       IN [a EXCEPT !.requirements = { kv \in @ : kv[1] \notin keys } \cup extracted]

\* conversation_chain.predict(input=...): the memory gets the input and the
\* completion
predict(a, input) ==
  [a EXCEPT !.messages = @ \o << HumanMessage(input), AIMessage("<completion>") >>]

\* the dictionary process_request returns
Result(a, text, next_action) ==
  [response |-> text, conversation_id |-> a.conversation_id,
   agent_state |-> [stage |-> a.conversation_stage, requirements |-> a.requirements],
   next_action |-> next_action]

\* process_request(prompt, user_id, conversation_history=...) on the agent a:
\* the agent it leaves and the dictionary it returns.  conversation_history is
\* <<>> (None) or <<saved state>>; llm is "ok" or "error" (predict raises);
\* pick and contradiction are what the extraction and the contradiction check
\* come back with.  The user has uploaded no document, so retrieve_context
\* adds nothing to the prompt
process_request(a, prompt, user_id, conversation_history, llm, pick, contradiction) ==
  LET a1 == IF conversation_history # <<>>
              THEN _restore_state(
                     [a EXCEPT !.conversation_id = conversation_history[1].conversation_id],
                     conversation_history[1])
            ELSE IF a.conversation_id = "None"
              THEN [a EXCEPT !.conversation_id = "conv_" \o user_id \o "_<now>"]
            ELSE a
      a2 == IF a1.conversation_chain THEN a1 ELSE _setup_conversation_chain(a1)
      review == a2.conversation_stage = "requirements_review"
      enhanced_prompt == _get_stage_guidance(a2.conversation_stage) \o "\n\n" \o prompt.text
      a3 == IF review THEN a2 ELSE predict(a2, enhanced_prompt)
      a4 == update_requirements_from_conversation(a3, pick)
      a5 == _update_conversation_stage(a4, prompt)
      a6 == IF a5.requirements # {} /\ contradiction
              THEN [a5 EXCEPT !.requirements = SetItem(@, "_contradictions", "<analysis>")]
              ELSE a5
  IN IF ~review /\ llm = "error"
       \* except Exception: the state as it was when predict raised
       THEN [agent |-> a2, result |-> Result(a2, "I encountered an error", "retry")]
       ELSE [agent |-> a6,
             result |-> Result(a6, IF review THEN "<summary>" ELSE "<completion>",
                               _determine_next_action(a6.conversation_stage))]

\* save_conversation(): the state as a dictionary
save_conversation(a) ==
  [conversation_id |-> a.conversation_id,
   stage |-> a.conversation_stage,
   requirements |-> a.requirements,
   message_count |-> a.message_count,
   memory |-> [messages |->
                 [i \in 1..Len(a.messages) |->
                    [type |-> a.messages[i].type, content |-> a.messages[i].content]]],
   updated_at |-> "<now>"]

load_conversation(a, saved_state) ==
  _restore_state([a EXCEPT !.conversation_id = saved_state.conversation_id], saved_state)

\* the last request and what it was answered
Exchange(user, prompt, conversation_history, answer, requirements) ==
  [user |-> user, prompt |-> prompt.text, history |-> conversation_history # <<>>,
   response |-> answer.response, conversation_id |-> answer.conversation_id,
   stage |-> answer.agent_state.stage, requirements |-> requirements,
   next_action |-> answer.next_action]

PocFrame ==
  UNCHANGED <<pc, result, log, response, config, configFile, rgExists, venv,
              issued, steps, attempt, verified, runs, truncated, prev, cwd,
              lookup, children, installer>>

\* agent.process_request(prompt, user_id) on one agent, without a
\* conversation_history (tests 1 and 2 of the module's self-test)
ProcessRequest ==
  /\ _poc_agent[1].message_count < MaxRequests
  /\ \E prompt \in Prompts, llm \in {"ok", "error"}, pick \in Picks,
        contradiction \in BOOLEAN :
       LET r == process_request(_poc_agent[1], prompt, "1", <<>>, llm, pick, contradiction)
       IN /\ _poc_agent' = <<r.agent>>
          /\ reply' = <<Exchange("1", prompt, <<>>, r.result, r.agent.requirements)>>
  /\ UNCHANGED db
  /\ PocFrame

\* one agent that has not been asked anything
AgentInit ==
  /\ pc = "idle"
  /\ result = "none"
  /\ log = NoFile
  /\ response = <<>>
  /\ configFile = NoConfig
  /\ config = NoConfig
  /\ rgExists = FALSE
  /\ venv = FALSE
  /\ issued = <<>>
  /\ steps = <<>>
  /\ attempt = 0
  /\ verified = FALSE
  /\ runs = 0
  /\ truncated = Kinds(NoFile)
  /\ prev = "none"
  /\ cwd = <<>>
  /\ environ = "inherited"
  /\ host = PlainHost
  /\ calls = <<>>
  /\ children = {}
  /\ installer = NoInstaller
  /\ _poc_agent = <<POCAgent>>
  /\ db = NoConversations
  /\ reply = <<>>

AgentNext == ProcessRequest

AgentSpec == AgentInit /\ [][AgentNext]_vars

\* POST /api/poc/chat by current_user: the module-level agent processes the
\* request, the requirements are extracted once more, the conversation is
\* saved as the user's latest, and the result is returned (its requirements
\* are the agent's dictionary itself, so they show the second extraction)
Chat(user) ==
  \E prompt \in Prompts, conversation_history \in {<<>>, db[user]},
     llm \in {"ok", "error"}, pick \in Picks, again \in Picks, contradiction \in BOOLEAN :
    LET agent == get_poc_agent(_poc_agent)[1]
        restored == IF conversation_history = <<>> THEN 0
                    ELSE Len(conversation_history[1].memory.messages)
        r == process_request(agent, prompt, user, conversation_history, llm, pick,
                             contradiction)
        after == update_requirements_from_conversation(r.agent, again)
    IN /\ Len(agent.messages) + restored + 2 <= MaxMessages
       /\ _poc_agent' = <<after>>
       /\ db' = IF after.conversation_id # "None"
                  THEN [db EXCEPT ![user] = <<save_conversation(after)>>]
                  ELSE db
       /\ reply' = <<Exchange(user, prompt, conversation_history, r.result,
                              after.requirements)>>
       /\ PocFrame

ChatUser1 == Chat("1")

ChatUser2 == Chat("2")

\* the API server has just started: no agent, no saved conversation
ChatInit ==
  /\ pc = "idle"
  /\ result = "none"
  /\ log = NoFile
  /\ response = <<>>
  /\ configFile = NoConfig
  /\ config = NoConfig
  /\ rgExists = FALSE
  /\ venv = FALSE
  /\ issued = <<>>
  /\ steps = <<>>
  /\ attempt = 0
  /\ verified = FALSE
  /\ runs = 0
  /\ truncated = Kinds(NoFile)
  /\ prev = "none"
  /\ cwd = <<>>
  /\ environ = "inherited"
  /\ host = PlainHost
  /\ calls = <<>>
  /\ children = {}
  /\ installer = NoInstaller
  /\ _poc_agent = <<>>
  /\ db = NoConversations
  /\ reply = <<>>

ChatNext == ChatUser1 \/ ChatUser2

ChatSpec == ChatInit /\ [][ChatNext]_vars

(* ------------------------------- claims ------------------------------- *)

\* a line of the log as the writer wrote it: f"{prefix}{t}\n"
IsRecord(line, prefix) == line # <<>> /\ Head(line) = prefix
WrittenTask(line) == SubSeq(line, 2, Len(line) - 1)

\* the entry of the progress list that the PROGRESS line number i created
EntryOf(lines, i) == Cardinality({ j \in 1..i : IsRecord(lines[j], "PROGRESS:") })

Max(S) == CHOOSE x \in S : \A y \in S : y <= x

StatusOf(f, task) ==
  LET r == ProgressResponse(f).progress
  IN { r[k].status : k \in { i \in 1..Len(r) : r[i].task = task } }

\* C1 (as claimed): for every task name t and every log, the entry of a
\* PROGRESS:t line is reported "done" when a DONE:t line follows it later in
\* the log and "running" when none does, also when t is started more than once.
C1_DoneIffFollowedByDone ==
  LET lines == log.lines
      r == ProgressResponse(log).progress
  IN \A i \in 1..Len(lines) :
       IsRecord(lines[i], "PROGRESS:") =>
         LET t == WrittenTask(lines[i])
             k == EntryOf(lines, i)
             followed == \E j \in (i + 1)..Len(lines) :
                            IsRecord(lines[j], "DONE:") /\ WrittenTask(lines[j]) = t
         IN /\ k <= Len(r)
            /\ r[k].status = IF followed THEN "done" ELSE "running"

\* C2 (as claimed): processing a DONE:t line marks the most recent entry of t
\* that is still "running"; an entry that is already "done" is never the one
\* matched while a later unfinished entry of t exists.
C2_DoneMarksLatestRunning ==
  LET lines == log.lines
  IN \A j \in 1..Len(lines) :
       IsRecord(lines[j], "DONE:") =>
         LET before == ParseLines(SubSeq(lines, 1, j - 1)).progress
             after == ParseLines(SubSeq(lines, 1, j)).progress
             t == replace(strip(lines[j]), "DONE:")
             running == { k \in 1..Len(before) :
                            before[k].task = t /\ before[k].status = "running" }
         IN after = IF running = {} THEN before
                    ELSE [before EXCEPT ![Max(running)].status = "done"]

\* every step of the run that has a DONE record in its code wrote it
NoStepSkippedItsDone ==
  <<"DONE:", "Setting API key secrets", NL>> \in Range(log.lines)

\* C3 (as claimed): every step that logs PROGRESS:<task> and completes logs DONE
\* with the same task name, so after a run in which every step completed every
\* task of the progress list is "done" and none is "running".
C3_CompletedRunAllDone ==
  (pc = "done" /\ result = TRUE /\ NoStepSkippedItsDone) =>
     \A k \in 1..Len(ProgressResponse(log).progress) :
        ProgressResponse(log).progress[k].status = "done"

EmptyResponse == [progress |-> <<>>, complete |-> FALSE, url |-> <<>>, error |-> <<>>]

\* C4: every run_automation call starts by resetting the progress log, whatever
\* it held; a poll right after the reset returns an empty progress list,
\* complete = false and error = "", and a second reset changes nothing.
C4_ResetIsIdempotent ==
  [][ runs' = runs + 1 =>
        /\ log' = ResetLog(log)
        /\ ProgressResponse(log') = EmptyResponse
        /\ ProgressResponse(ResetLog(log')) = ProgressResponse(log') ]_vars

\* C4 witness: a run has just reset a log that held tasks and a COMPLETE record
C4_Witness ==
  /\ runs = 2
  /\ pc = "install_cli_tools"
  /\ truncated.tasks /\ truncated.complete
  /\ ProgressResponse(log) = EmptyResponse

CreateCommands ==
  { "az group create", "az appservice plan create", "az webapp create",
    "az staticwebapp create" }

\* C5 (as claimed): when provision_azure_resources runs and the resource group
\* already exists, the step aborts with an ERROR record and issues no create
\* command.
C5_ExistingGroupAborts ==
  [][ (pc = "provision_azure_resources" /\ rgExists /\ pc' # pc) =>
        /\ pc' = "done" /\ result' = FALSE
        /\ ProgressResponse(log').error # <<>>
        /\ Range(issued') \cap CreateCommands = {} ]_vars

StepsAfterProvisioning ==
  { Sequence[i] : i \in (IndexOf("provision_azure_resources") + 1)..Len(Sequence) }

\* C6 (as claimed): a run that follows a successful run issues no
\* "az group create" and executes no step after provisioning (it aborts there).
C6_RerunAbortsAtProvisioning ==
  (runs >= 2 /\ prev = TRUE) =>
    /\ "az group create" \notin Range(issued)
    /\ Range(steps) \cap StepsAfterProvisioning = {}
    /\ (pc = "done" /\ "provision_azure_resources" \in Range(steps)) => result = FALSE

BestEffortSteps == { "setup_azure_subscription", "set_api_key_secrets" }

\* C7: a best-effort step never aborts the run: whatever happens in it (tool
\* missing, command failing), run_automation goes on with the step that follows
\* and its return value is not decided there; set_azure_secrets itself returns
\* normally whether or not the publish profile could be retrieved.
C7_BestEffortContinues ==
  [][ /\ (pc \in BestEffortSteps /\ pc' # pc) =>
            (pc' = NextStep(pc) /\ result' = result /\ steps' = Append(steps, pc))
      /\ \A gh \in _find_gh_command, az \in _find_az_command,
            rg \in {"", "<resource_group>"}, out \in {"ok", "fail"},
            popen \in {"ok", "exception"} :
            ~set_azure_secrets(log, gh, get_azure_publish_profile(az, rg, out),
                               popen).raised ]_vars

\* C7 witness: the API key step found no gh (its task stays "running"), and the
\* run went on to the end and returned True
C7_Witness ==
  /\ pc = "done" /\ result = TRUE
  /\ StatusOf(log, <<"Setting API key secrets">>) = {"running"}
  /\ StatusOf(log, <<"Pushing to GitHub">>) = {"done"}

\* C8: verify_deployment polls at most 36 times, never polls again after a 200
\* response, and once the 36th poll is made the only thing it does is leave the
\* loop (reporting the timeout when no poll returned 200).
C8_BoundedPolling ==
  [][ /\ attempt' <= MaxAttempts
      /\ attempt' > attempt =>
           (pc = "verify_poll" /\ ~verified /\ attempt' = attempt + 1)
      /\ (pc = "verify_poll" /\ attempt = MaxAttempts /\ response' = <<>>) =>
           (pc' = "cleanup" /\ attempt' = attempt) ]_vars

\* C8 witness: the loop ended after 36 polls without a 200 response
C8_Witness == pc = "cleanup" /\ attempt = MaxAttempts /\ ~verified

TimedOut ==
  /\ attempt = MaxAttempts /\ ~verified
  /\ pc \in {"cleanup", "done"}
  /\ "verify_deployment" \in Range(steps)

\* C9: a verification timeout is not fatal: after it the run executes cleanup
\* and returns True.
C9_TimeoutStillSucceeds ==
  (TimedOut /\ pc = "done") => (result = TRUE /\ steps[Len(steps)] = "cleanup")

\* C9 witness: a run that timed out in verify_deployment has returned True
C9_Witness == TimedOut /\ pc = "done" /\ result = TRUE

\* C10 (as claimed): a verification timeout is logged as uncertain, not as a
\* failure: it appends no ERROR record, so the error field of /progress is
\* empty after a run whose only problem was the timeout.
C10_TimeoutLeavesErrorEmpty ==
  (TimedOut /\ pc = "done" /\ result = TRUE) => ProgressResponse(log).error = <<>>

IsPrefix(a, b) == Len(a) <= Len(b) /\ a = SubSeq(b, 1, Len(a))

\* C11: a failure in a step ends the run at once and for good: the failing
\* step is the last one executed, run_automation returns False, nothing
\* created so far is undone (configuration, resource group, venv, log), and
\* nothing more happens until run_automation is called again.
C11_AbortIsTerminal ==
  [][ /\ (pc \in Range(Sequence) /\ pc # "cleanup" /\ pc' = "done") =>
           /\ result' = FALSE
           /\ steps' = Append(steps, pc)
           /\ config' = config /\ configFile' = configFile
           /\ (rgExists => rgExists') /\ (venv => venv')
           /\ IsPrefix(log.lines, log'.lines)
      \* a provisioning command that was not issued: an earlier one failed
      /\ (pc = "provision_azure_resources" /\ pc' # pc
            /\ Len(issued') < 1 + Len(ProvisionCommands)) => pc' = "done"
      /\ (pc = "create_virtual_environment" /\ pc' # pc /\ ~venv') => pc' = "done"
      /\ (pc = "done" /\ steps' # steps) => (pc' = Sequence[1] /\ runs' = runs + 1)
      /\ (pc = "done" /\ pc' # pc) => (pc' = Sequence[1] /\ runs' = runs + 1) ]_vars

\* C11 witness: provisioning failed after the resource group was created; the
\* group is still there and the run has returned False
C11_Witness ==
  /\ pc = "done" /\ result = FALSE
  /\ steps[Len(steps)] = "provision_azure_resources"
  /\ "az group create" \in Range(issued)
  /\ "az webapp create" \notin Range(issued)
  /\ rgExists

\* C12 (as claimed): after every run that a failing step aborted, /progress
\* returns a non-empty error.
C12_AbortLogsError ==
  (pc = "done" /\ result = FALSE) => ProgressResponse(log).error # <<>>

\* the step was entered in the current run
Entered(step) ==
  \/ step \in Range(steps)
  \/ pc = step
  \/ (step = "verify_deployment" /\ pc = "verify_poll")

\* the step was executed in the current run and did not fail
Completed(step) ==
  /\ step \in Range(steps)
  /\ ~(pc = "done" /\ result = FALSE /\ steps[Len(steps)] = step)

\* C13: in every run the steps execute in one fixed order: provisioning
\* commands are issued only after both authentications succeeded,
\* provisioning completes before workflow generation and secret propagation,
\* venv creation, dependency install and database initialisation complete
\* before commit/push, and commit/push completes before verification starts.
C13_StrictOrder ==
  /\ \A i, j \in 1..Len(steps) : (i # j) => (steps[i] # steps[j])
  /\ issued # <<>> =>
       (Completed("authenticate_github") /\ Completed("authenticate_azure"))
  /\ \A later \in {"create_github_workflows", "set_azure_publish_profiles",
                   "set_api_key_secrets"} :
       Entered(later) => Completed("provision_azure_resources")
  /\ Entered("commit_and_push") =>
       \A earlier \in {"create_virtual_environment", "install_dependencies",
                       "initialize_database"} : Completed(earlier)
  /\ Entered("verify_deployment") => Completed("commit_and_push")

\* C13 witness: a run went through the whole sequence
C13_Witness ==
  /\ pc = "done" /\ result = TRUE
  /\ Len(steps) = Len(Sequence)
  /\ issued # <<>>

NoRepoUrl(cfg) == ~cfg.setup_complete /\ cfg.github_repo_url \in {"", Absent}

\* C14 (as claimed): with setup_complete = false and no github_repo_url the run
\* fails at the git-remote step, with an error that names the missing
\* repository URL and not a generic exception, and the step does not go on as
\* if the remote were configured.
C14_MissingUrlFailsFast ==
  [][ (pc = "setup_git_remote" /\ NoRepoUrl(config) /\ pc' # pc) =>
        /\ pc' = "done" /\ result' = FALSE
        /\ setup_git_remote_raises(config) \notin {"none", "KeyError"}
        /\ ProgressResponse(log').error # <<>> ]_vars

\* C15: whenever user_config.json says setup_complete = true, its user_name,
\* project_name, openai_api_key, github_repo_url and subscription_id are all
\* non-empty, whatever /save-progress, /init-git and /complete-setup requests
\* and orchestrator write-backs led there.
C15_CompleteImpliesRequired ==
  configFile.setup_complete =>
    \A f \in Required : configFile[f] \notin {"", " ", Absent}

\* C15 witness: the orchestrator wrote the provisioned URLs back into a
\* configuration that /complete-setup had completed
C15_Witness ==
  /\ configFile.setup_complete
  /\ configFile.backend_prod_url # ""

\* C16: within one run the progress log only grows: what it held at any moment
\* of the run is a prefix of what it holds later in the same run, and the only
\* truncation is the reset at the start of run_automation.
C16_AppendOnlyWithinRun ==
  [][ /\ runs' = runs =>
           (IsPrefix(log.lines, log'.lines) /\ (log.exists => log'.exists))
      /\ ~IsPrefix(log.lines, log'.lines) =>
           (runs' = runs + 1 /\ pc' = Sequence[1] /\ log' = ResetLog(log)) ]_vars

\* C16 witness: a second run is past provisioning, its log holding the reset
\* line followed by the records of its steps
C16_Witness ==
  /\ runs = 2
  /\ pc = "create_github_workflows"
  /\ log.lines[1] = <<"Starting automation...", NL>>
  /\ <<"DONE:", "Provisioning Azure resources", NL>> \in Range(log.lines)

\* the file without its last line
WithoutLastLine(f) == [f EXCEPT !.lines = SubSeq(@, 1, Len(@) - 1)]

\* C17 (as claimed): a poll that sees a partially written last line ignores
\* it: the response equals the response computed from the log without that
\* line, so a truncated record adds no task, changes no status and sets
\* neither error nor complete/url.
C17_PartialLineIgnored ==
  (response # <<>> /\ IsPartial(log)) =>
     response[1] = ProgressResponse(WithoutLastLine(log))

\* C18: on an unchanging machine two consecutive calls of _find_gh_command (or
\* of _find_az_command) return the same path, or both return None, also when
\* the first of them replaced the process PATH by the registry Path.
C18_LookupIsDeterministic ==
  \A i \in 1..(Len(calls) - 1) :
     calls[i].tool = calls[i + 1].tool => calls[i].path = calls[i + 1].path

\* C18 witness: the first of two consecutive lookups of gh refreshed PATH and
\* found gh through it
C18_Witness ==
  /\ Len(calls) >= 2
  /\ calls[1].tool = "gh" /\ calls[2].tool = "gh"
  /\ "gh" \notin host.on_path["inherited"]
  /\ environ = "registry"
  /\ calls[2].path = which(host, "gh", "registry")
  /\ calls[2].path # "None"

\* C19 (as claimed): with check=false _run_command returns None both when the
\* process could not be started and when it exited non-zero; no caller ever
\* gets a result object with a non-zero exit code from it.
C19_UncheckedFailureIsNone ==
  [][ (pc = "setup_git_remote" /\ pc' # pc) =>
        \A outcome \in Outcomes :
           LET r == _run_command(FALSE, outcome)
           IN r.kind = "None" \/ (r.kind = "CompletedProcess" /\ r.returncode = 0) ]_vars

\* C20 (as claimed): build_welcome_page leaves the working directory as it
\* found it, whether npm install and npm run build succeed or fail, so every
\* later step and the abort path run in the directory the step started in.
C20_CwdRestored ==
  [][ (pc = "build_welcome_page" /\ pc' # pc) => cwd' = cwd ]_vars

\* the run was aborted by a step that had logged its PROGRESS record
MidStepAbort ==
  /\ pc = "done" /\ result = FALSE
  /\ steps # <<>>
  /\ StepTask(steps[Len(steps)]) # <<>>

\* C21: after a step logged PROGRESS:<task> and then failed before its DONE,
\* every poll of /progress made before the next run resets the log reports
\* that task as "running"; and no poll ever reports a task with a status other
\* than "running" or "done".
C21_AbortedTaskStaysRunning ==
  response # <<>> =>
    /\ \A k \in 1..Len(response[1].progress) :
          response[1].progress[k].status \in {"running", "done"}
    /\ MidStepAbort =>
          \E k \in 1..Len(response[1].progress) :
             /\ response[1].progress[k].task = StepTask(steps[Len(steps)])
             /\ response[1].progress[k].status = "running"
             /\ \A j \in 1..Len(response[1].progress) :
                   response[1].progress[j].task = response[1].progress[k].task => j = k

\* C21 witness: pip failed in install_dependencies and the log was polled
\* after the run had returned False
C21_Witness ==
  /\ MidStepAbort
  /\ steps[Len(steps)] = "install_dependencies"
  /\ response # <<>>
  /\ StatusOf(log, <<"Installing dependencies">>) = {"running"}
  /\ StatusOf(log, <<"Creating virtual environment">>) = {"done"}

\* the tool check of the current run logged that it found the tool
FoundAtCheck(f, name) ==
  <<"[timestamp] ", "[OK] " \o name \o " CLI found", NL>> \in Range(f.lines)

\* C22: when the tool check cannot locate the GitHub CLI or the Azure CLI the
\* run aborts there: run_automation returns False, the error of /progress
\* names the missing tool, and neither authentication nor provisioning nor any
\* later step is executed; a run gets past the check only with both found.
C22_MissingToolAbortsAtCheck ==
  [][ (pc = "install_cli_tools" /\ pc' # pc) =>
        /\ ~FoundAtCheck(log', "GitHub") =>
              /\ pc' = "done" /\ result' = FALSE
              /\ ProgressResponse(log').error = <<"GitHub CLI not found">>
        /\ (FoundAtCheck(log', "GitHub") /\ ~FoundAtCheck(log', "Azure")) =>
              /\ pc' = "done" /\ result' = FALSE
              /\ ProgressResponse(log').error = <<"Azure CLI not found">>
        /\ pc' = "done" =>
              /\ steps' = <<"install_cli_tools">>
              /\ issued' = <<>>
              /\ ~(FoundAtCheck(log', "GitHub") /\ FoundAtCheck(log', "Azure"))
        /\ pc' # "done" => pc' = "authenticate_github" ]_vars

\* C22 witness: the check found gh but not az; the run is over, it returned
\* False and executed nothing else
C22_Witness ==
  /\ pc = "done" /\ result = FALSE
  /\ steps = <<"install_cli_tools">>
  /\ FoundAtCheck(log, "GitHub") /\ ~FoundAtCheck(log, "Azure")
  /\ ProgressResponse(log).error = <<"Azure CLI not found">>

\* C23 (as claimed): a run that succeeds launches the helper services (local
\* dashboards) as detached child processes, as its last action after
\* deployment verification; a run that aborted launches none.
C23_HelpersStartLast ==
  /\ (pc = "done" /\ result = TRUE) => children # {}
  /\ (pc = "done" /\ result = FALSE) => children = {}
  /\ children # {} => (pc = "done" /\ "verify_deployment" \in Range(steps))

DerivedFields == {"backend_prod_url", "static_web_app_url"}

\* C24: a provisioning step that succeeds writes user_config.json back before
\* it logs DONE: when DONE:Provisioning Azure resources is in the log the file
\* holds backend_prod_url and static_web_app_url and every other field has the
\* value the orchestrator loaded at its start (also when the setup server
\* rewrote the file in between); a provisioning step that aborts leaves the
\* file as it was.
C24_WriteBackOnSuccessOnly ==
  [][ (pc = "provision_azure_resources" /\ pc' # pc) =>
        IF pc' = "done"
          THEN /\ configFile' = configFile
               /\ <<"DONE:", "Provisioning Azure resources", NL>> \notin Range(log'.lines)
          ELSE /\ <<"DONE:", "Provisioning Azure resources", NL>> \in Range(log'.lines)
               /\ configFile'.exists
               /\ configFile'.backend_prod_url = BackendUrl
               /\ configFile'.static_web_app_url \in {StaticUrl, ""}
               /\ \A f \in (DOMAIN config) \ DerivedFields : configFile'[f] = config[f] ]_vars

\* C24 witness: a run started on a saved draft (setup_complete false, every
\* field filled in) is past provisioning and the file holds the draft with
\* both URLs
C24_Witness ==
  /\ pc = "create_github_workflows"
  /\ <<"DONE:", "Provisioning Azure resources", NL>> \in Range(log.lines)
  /\ ~configFile.setup_complete
  /\ configFile.backend_prod_url = BackendUrl
  /\ configFile.static_web_app_url = StaticUrl
  /\ configFile.user_name = "x"

CompleteLines(f) == { i \in 1..Len(f.lines) : IsRecord(f.lines[i], "COMPLETE:") }

\* C26: a COMPLETE record is in the log only when a poll of verify_deployment
\* in the current run got HTTP 200, at most once, and right after
\* DONE:Verifying deployment; so /progress reports complete = true only for a
\* run whose deployment was seen healthy, and a run that ends with no URL
\* configured or with a verification timeout returns True without any poll
\* ever reporting complete = true.
C26_CompleteOnlyWhenVerified ==
  /\ Cardinality(CompleteLines(log)) <= 1
  /\ \A i \in CompleteLines(log) :
        /\ verified
        /\ i > 1
        /\ log.lines[i - 1] = <<"DONE:", "Verifying deployment", NL>>
  /\ ~verified => ~ProgressResponse(log).complete
  /\ (response # <<>> /\ response[1].complete) => verified

\* C26 witness: a run without a static web app URL returned True and the poll
\* made afterwards reports every task but not complete
C26_Witness ==
  /\ pc = "done" /\ result = TRUE
  /\ config.static_web_app_url = ""
  /\ response # <<>>
  /\ ~response[1].complete
  /\ StatusOf(log, <<"Verifying deployment">>) = {"done"}

\* the tools that were missing when check_and_install last ran
WasMissing == Range(missing_tools(installer))

\* C27 (as claimed): check_and_install returns 0 exactly when no required tool
\* is missing; with tools missing it returns 1 only if every missing tool was
\* installed, and 2 whenever a missing tool failed to install or there is no
\* installer.
C27_ExitCodeReflectsInstall ==
  installer.exit_code # -1 =>
    /\ (installer.exit_code = 0) <=> (WasMissing = {})
    /\ installer.exit_code \in {0, 1, 2}
    /\ installer.exit_code = 1 => installer.installed = WasMissing
    /\ (WasMissing # {} /\ installer.installed # WasMissing) => installer.exit_code = 2

\* the field is not in the posted object, or holds nothing but blanks
Blank(data, f) == data[f] \in {Absent, "", " "}

\* C28: a /complete-setup request in which one of the five required fields is
\* missing or blank is answered 400 and changes nothing: user_config.json is
\* left as it was and automation.sh is not started; and automation.sh is
\* started only by a request that wrote the complete configuration with
\* setup_complete = true.
C28_RejectedSetupHasNoEffect ==
  /\ [](\A data \in Payloads, bash \in BOOLEAN :
           LET r == complete_setup(configFile, data, bash)
           IN /\ (\E f \in Required : Blank(data, f)) =>
                    (r.status = 400 /\ r.file = configFile /\ ~r.started)
              /\ r.started =>
                    /\ r.file.setup_complete
                    /\ \A f \in Required : r.file[f] = data[f] /\ ~Blank(data, f))
  /\ [][ children' # children =>
           /\ configFile'.setup_complete
           /\ \A f \in Required : configFile'[f] \notin {"", " ", Absent} ]_vars

\* C28 witness: automation.sh was started, by a request that left the
\* complete configuration in the file
C28_Witness ==
  /\ children = {"bash automation.sh"}
  /\ configFile.setup_complete
  /\ \A f \in Required : configFile[f] = "x"
  /\ runs = 0

\* C25: saving and loading is a round trip.  At every state the agent can
\* reach, load_conversation(save_conversation()) on a fresh POCAgent gives
\* the same conversation_id, stage, requirements, message_count and the same
\* sequence of human/ai messages as the saved agent, and a process_request
\* that is given the saved state answers with the saved conversation_id,
\* whatever the message and whatever the model does.
C25_SaveLoadRoundTrip ==
  LET a == _poc_agent[1]
      saved_state == save_conversation(a)
      b == load_conversation(POCAgent, saved_state)
  IN /\ b.conversation_id = a.conversation_id
     /\ b.conversation_stage = a.conversation_stage
     /\ b.requirements = a.requirements
     /\ b.message_count = a.message_count
     /\ b.messages = SelectSeq(a.messages, LAMBDA msg : msg.type \in {"human", "ai"})
     /\ \A prompt \in Prompts, llm \in {"ok", "error"}, pick \in Picks,
           contradiction \in BOOLEAN :
          LET r == process_request(b, prompt, "1", <<saved_state>>, llm, pick,
                                   contradiction)
          IN /\ r.result.conversation_id = a.conversation_id
             /\ r.agent.conversation_id = a.conversation_id

\* a conversation that has an id, has left the greeting, has requirements and
\* both human and ai messages, and that survives the round trip
C25_Witness ==
  LET a == _poc_agent[1]
      b == load_conversation(POCAgent, save_conversation(a))
  IN /\ a.conversation_id = "conv_1_<now>"
     /\ a.conversation_stage = "backend_requirements"
     /\ a.requirements # {}
     /\ a.message_count >= 3
     /\ \E i, j \in 1..Len(a.messages) :
          a.messages[i].type = "human" /\ a.messages[j].type = "ai"
     /\ b.messages = a.messages
     /\ b.conversation_id = a.conversation_id

PromptOf(text) == CHOOSE prompt \in Prompts : prompt.text = text

\* C29: without a restore, every processed message leaves the stage where it
\* is or moves it one position forward in Stages; ready_to_generate is never
\* left; and it is entered only from requirements_review by a message with an
\* approval keyword.
C29_StageMovesForwardOneStep ==
  [][ LET before == _poc_agent[1].conversation_stage
          after == _poc_agent'[1].conversation_stage
      IN /\ StageIndex(after) - StageIndex(before) \in {0, 1}
         /\ before = "ready_to_generate" => after = "ready_to_generate"
         /\ (after = "ready_to_generate" /\ before # "ready_to_generate") =>
              /\ before = "requirements_review"
              /\ PromptOf(reply'[1].prompt).approval ]_vars

\* the agent is ready to generate and has since processed a message that is
\* not an approval
C29_Witness ==
  /\ _poc_agent[1].conversation_stage = "ready_to_generate"
  /\ _poc_agent[1].message_count = 6
  /\ reply # <<>>
  /\ reply[1].stage = "ready_to_generate"
  /\ ~PromptOf(reply[1].prompt).approval

\* C30: the conversation state the chat endpoint serves is isolated per
\* user.  A request without conversation_history is answered with a
\* conversation_id made for the requesting user; and when it is the user's
\* first request (nothing saved for them yet), the stage returned is one a
\* single message can reach from the greeting and the requirements returned
\* hold nothing but what was drawn from the user's own message.
C30_ChatStateIsolatedPerUser ==
  [][ \A user \in Users :
        (reply' # <<>> /\ reply'[1].user = user /\ ~reply'[1].history) =>
          /\ reply'[1].conversation_id = "conv_" \o user \o "_<now>"
          /\ db[user] = <<>> =>
               /\ reply'[1].stage \in {"greeting", "initial_requirements"}
               /\ \A kv \in reply'[1].requirements :
                    kv[1] = "goal" =>
                      kv[2] = _get_stage_guidance("greeting") \o "\n\n" \o reply'[1].prompt
    ]_vars

====
